---- MODULE Spec2Model ----
(***************************************************************************)
(* Session lifecycle of sanic-security: the Session records of             *)
(* asyncauth/core/models.py (crosscheck_code, encode, decode_raw, decode,  *)
(* ErrorFactory, SessionFactory) and the handlers of                       *)
(* sanic_security/authentication.py and sanic_security/core/recovery.py    *)
(* that change them.                                                       *)
(*                                                                         *)
(* Time is counted in minutes.  A session row is a record; its uid is its  *)
(* index in the sequence sessions.  The three Session subclasses are three *)
(* tables: a lookup by uid goes through one class and sees only the rows   *)
(* of that class.                                                          *)
(***************************************************************************)
EXTENDS Integers, Sequences, FiniteSets, TLC

VARIABLES
    sessions,   \* the session rows, in order of creation
    accounts,   \* the account rows, but for their password column
    password,   \* Account.password of every account
    secret,     \* config['AUTH']['secret'], the signing secret
    now,        \* the clock
    cookies,    \* client side: the token each session was encoded into
    history,    \* per session, the crosscheck calls made on it so far
    requests,   \* server side: the row each request in flight has loaded
    recovering, \* server side: the recovery that has yet to save its password
    ip2proxy,   \* the IP2Proxy database handle, and where each request is with it
    res         \* what the last call did: its name, arguments and outcome

vars == <<sessions, accounts, password, secret, now, cookies, history, requests,
          recovering, ip2proxy, res>>

-----------------------------------------------------------------------------
(* Bounds of the model *)

MaxSessions == 1

\* Requests the server works on at the same time
MaxRequests == 2

\* Calls of open on the IP2Proxy handle
MaxOpens == 3

-----------------------------------------------------------------------------
(* Universes of the inputs *)

None == "None"

AccountIds == {"alice", "bob"}
IPs == {"1.2.3.4", "9.9.9.9"}
Secrets == {"k1", "k2"}
Passwords == {"pw1", "pw2"}

\* The cached pool of pre-generated session codes (get_cached_session_code):
\* the n-th code popped.  Codes are 8 characters (Session.code, max_length=8).
CodePool(n) == <<4, 8, 2, 9, 1, 3, n, n>>

\* The None of a session that carries no code: no typed code equals it.
NoCode == <<-1>>

Kinds == {"captcha", "verification", "authentication"}
CodeKinds == {"captcha", "verification"}

MinutesPerDay == 1440

\* code[:n]
Truncate(code, n) == SubSeq(code, 1, IF Len(code) < n THEN Len(code) ELSE n)

Uids == 1..Len(sessions)

RequestIds == 1..MaxRequests

\* What a client can type as a code: a code that was handed out, in full or
\* cut to the captcha's 6 characters, or a code that never was.
PresentedCodes ==
    {CodePool(n) : n \in Uids} \cup {Truncate(CodePool(n), 6) : n \in Uids}
        \cup {<<0, 0, 0, 0, 0, 0>>}

-----------------------------------------------------------------------------
(* Token codec: jwt.encode / jwt.decode with HS256 *)

\* The HS256 signature of a payload: it is recomputed by the verifier, and
\* two signatures agree exactly when payload and key agree.
Sign(payload, key) == <<"HS256", payload, key>>

\* A request without the cookie: jwt.decode(None, ...) raises DecodeError.
NoPayload == [date_created |-> -1, uid |-> 0, ip |-> None]
NoToken == [payload |-> NoPayload, signature |-> <<"unsigned", NoPayload, None>>]

\* encode with the expiration date as one more claim
encode_with_expiry(uid, s, key) ==
    LET payload == [date_created |-> s.date_created, uid |-> uid, ip |-> s.ip,
                    expiration_date |-> s.expiration_date]
    IN  [payload |-> payload, signature |-> Sign(payload, key)]

\* Session.encode: the claims are date_created, uid and ip.
encode(uid, s, key) ==
    LET payload == [date_created |-> s.date_created, uid |-> uid, ip |-> s.ip]
    IN  [payload |-> payload, signature |-> Sign(payload, key)]

\* Session.decode_raw: the payload, or DecodeError for a missing cookie or a
\* signature that the configured secret does not reproduce.
\* decode_raw with the signature left unverified
decode_raw_unverified(token) ==
    IF token = NoToken
    THEN [err |-> "DecodeError", payload |-> NoPayload]
    ELSE [err |-> "ok", payload |-> token.payload]

decode_raw(token) ==
    IF token.signature # Sign(token.payload, secret)
    THEN [err |-> "DecodeError", payload |-> NoPayload]
    ELSE [err |-> "ok", payload |-> token.payload]

\* cls.filter(uid=...).first(): the row of that class with that uid, or None.
\* The query does not filter on deleted.
first_by_uid(cls, uid) ==
    IF uid \in Uids /\ sessions[uid].kind = cls THEN uid ELSE 0

\* Session.decode: decode_raw, then the lookup.  found = 0 stands for the
\* None that first() returns.
decode(cls, token) ==
    LET raw == decode_raw(token)
    IN  IF raw.err # "ok"
        THEN [err |-> raw.err, found |-> 0]
        ELSE [err |-> "ok", found |-> first_by_uid(cls, raw.payload.uid)]

\* The tokens a client can put into a cookie: one it was handed, or nothing.
Tokens == {cookies[u] : u \in Uids} \cup {NoToken}

-----------------------------------------------------------------------------
(* Session.ErrorFactory.get: the error of a decoded session, "ok" for none *)

\* Variants of ErrorFactory.get with one slip each
ErrorFactory_get_no_expiry(found) ==
    IF found = 0 THEN "NotFoundError"
    ELSE IF ~sessions[found].valid THEN "InvalidError"
    ELSE IF sessions[found].deleted THEN "DeletedError"
    ELSE "ok"

ErrorFactory_get_deleted_first(found) ==
    IF found = 0 THEN "NotFoundError"
    ELSE IF sessions[found].deleted THEN "DeletedError"
    ELSE IF ~sessions[found].valid THEN "InvalidError"
    ELSE IF sessions[found].expiration_date < now THEN "ExpiredError"
    ELSE "ok"

ErrorFactory_get_no_deleted(found) ==
    IF found = 0 THEN "NotFoundError"
    ELSE IF ~sessions[found].valid THEN "InvalidError"
    ELSE IF sessions[found].expiration_date < now THEN "ExpiredError"
    ELSE "ok"

ErrorFactory_get(found) ==
    IF found = 0 THEN "NotFoundError"
    ELSE IF ~sessions[found].valid THEN "InvalidError"
    ELSE IF sessions[found].deleted THEN "DeletedError"
    ELSE IF sessions[found].expiration_date < now THEN "ExpiredError"
    ELSE "ok"

-----------------------------------------------------------------------------
(* Session.crosscheck_code on one row: the row it saves and what it raises *)

MaxAttempts == 5

\* Variants of crosscheck_code with one slip each
crosscheck_code_code_first(s, code) ==
    IF s.code = code
    THEN [row |-> [s EXCEPT !.valid = FALSE], err |-> "ok"]
    ELSE IF s.attempts >= MaxAttempts
    THEN [row |-> s, err |-> "MaximumAttemptsError"]
    ELSE [row |-> [s EXCEPT !.attempts = @ + 1], err |-> "CrosscheckError"]

crosscheck_code_also_invalidates(s, code) ==
    IF s.attempts >= MaxAttempts
    THEN [row |-> s, err |-> "MaximumAttemptsError"]
    ELSE IF s.code # code
    THEN [row |-> [s EXCEPT !.attempts = @ + 1, !.valid = FALSE],
          err |-> "CrosscheckError"]
    ELSE [row |-> [s EXCEPT !.valid = FALSE], err |-> "ok"]

crosscheck_code_off_by_one(s, code) ==
    IF s.attempts > MaxAttempts
    THEN [row |-> s, err |-> "MaximumAttemptsError"]
    ELSE IF s.code # code
    THEN [row |-> [s EXCEPT !.attempts = @ + 1], err |-> "CrosscheckError"]
    ELSE [row |-> [s EXCEPT !.valid = FALSE], err |-> "ok"]

crosscheck_code_toggles(s, code) ==
    IF s.attempts >= MaxAttempts
    THEN [row |-> s, err |-> "MaximumAttemptsError"]
    ELSE IF s.code # code
    THEN [row |-> [s EXCEPT !.attempts = @ + 1], err |-> "CrosscheckError"]
    ELSE [row |-> [s EXCEPT !.valid = ~@], err |-> "ok"]

crosscheck_code_counts_every_call(s, code) ==
    IF s.attempts >= MaxAttempts
    THEN [row |-> s, err |-> "MaximumAttemptsError"]
    ELSE IF s.code # code
    THEN [row |-> [s EXCEPT !.attempts = @ + 1], err |-> "CrosscheckError"]
    ELSE [row |-> [s EXCEPT !.attempts = @ + 1, !.valid = FALSE], err |-> "ok"]

crosscheck_code(s, code) ==
    IF s.attempts >= MaxAttempts
    THEN [row |-> s, err |-> "MaximumAttemptsError"]
    ELSE IF s.code # code
    THEN [row |-> [s EXCEPT !.attempts = @ + 1], err |-> "CrosscheckError"]
    ELSE [row |-> [s EXCEPT !.valid = FALSE], err |-> "ok"]

-----------------------------------------------------------------------------
(* SessionFactory *)

\* generate_expiration_date(days=1, minutes=0)
generate_expiration_date(days, minutes) == now + days * MinutesPerDay + minutes

DefaultDays == 1

NewRow(kind, ip, account, code, expiration_date, two_factor) ==
    [kind |-> kind, account |-> account, expiration_date |-> expiration_date,
     valid |-> TRUE, ip |-> ip, attempts |-> 0, code |-> code,
     deleted |-> FALSE, date_created |-> now,
     two_factor |-> two_factor, active |-> TRUE]

\* SessionFactory._account_via_decoded: the account of the session the
\* request's cookie decodes to.  decoded_session.account on the None of an
\* absent row is an AttributeError.
account_via_decoded(cls, token) ==
    LET d == decode(cls, token)
    IN  IF d.err # "ok" THEN [err |-> d.err, account |-> None]
        ELSE IF d.found = 0 THEN [err |-> "AttributeError", account |-> None]
        ELSE [err |-> "ok", account |-> sessions[d.found].account]

\* SessionFactory.get: the row it creates, or the error it raises.
SessionFactory_get(kind, ip, account, code, two_factor, token) ==
    LET via == IF account # None THEN [err |-> "ok", account |-> account]
               ELSE account_via_decoded(kind, token)
    IN  IF kind = "captcha"
        THEN [err |-> "ok",
              row |-> NewRow(kind, ip, None, Truncate(code, 6),
                             generate_expiration_date(DefaultDays, 1), FALSE)]
        ELSE IF kind = "verification"
        THEN [err |-> via.err,
              row |-> NewRow(kind, ip, via.account, code,
                             generate_expiration_date(DefaultDays, 1), FALSE)]
        ELSE IF kind = "authentication"
        THEN [err |-> via.err,
              row |-> NewRow(kind, ip, via.account, NoCode,
                             generate_expiration_date(30, 0), two_factor)]
        ELSE [err |-> "ValueError",
              row |-> NewRow(kind, ip, None, NoCode, now, FALSE)]

-----------------------------------------------------------------------------
(* The outcome of the last call *)

\* op, cls, uid, err: the call, the Session class it went through, the row it
\* reached (0 for none) and what it raised ("ok" for nothing).  before,
\* hbefore: the rows and their histories when the call began.  tokuid, stale:
\* the uid claim of the presented token, and whether it was signed under
\* another secret.  match: whether the presented code was the row's code.
\* form: the form of a register request.  msg: the message of the error.  ip: the address the request came from.  ran: whether the handler behind the
\* guard was executed.  abefore, pbefore: the accounts and their passwords
\* when the call began.
NoForm == [email |-> None, password |-> None, phone |-> None, username |-> None]

Idle == [op |-> "idle", cls |-> None, uid |-> 0, err |-> "ok",
         before |-> <<>>, hbefore |-> <<>>, account |-> None, tokuid |-> 0,
         stale |-> FALSE, match |-> FALSE, ip |-> None, ran |-> FALSE,
         abefore |-> <<>>, pbefore |-> <<>>, msg |-> None, form |-> NoForm]

Result(op, cls, uid, err) ==
    [op |-> op, cls |-> cls, uid |-> uid, err |-> err,
     before |-> sessions, hbefore |-> history, account |-> None, tokuid |-> 0,
     stale |-> FALSE, match |-> FALSE, ip |-> None, ran |-> FALSE,
     abefore |-> accounts, pbefore |-> password, msg |-> None, form |-> NoForm]

\* The calls counted per session: wrong, the calls with a code that is not the
\* row's (counted up to MaxAttempts + 1); failed, the calls that raised
\* CrosscheckError; passed, the calls that returned (counted up to 2).
NoCalls == [wrong |-> 0, failed |-> 0, passed |-> 0]

\* A request that is not inside proxy_detection
NoDetection == [pc |-> "idle", ip |-> None]

\* A request that holds no model instance: it has not decoded its cookie yet,
\* or it has finished.
NoRequest == [uid |-> 0, attempts |-> 0, valid |-> FALSE, code |-> NoCode]

Min(a, b) == IF a < b THEN a ELSE b

Count(h, s, code, err) ==
    [wrong |-> IF s.code # code THEN Min(h.wrong + 1, MaxAttempts + 1) ELSE h.wrong,
     failed |-> IF err = "CrosscheckError" THEN h.failed + 1 ELSE h.failed,
     passed |-> IF err = "ok" THEN Min(h.passed + 1, 2) ELSE h.passed]

\* utils.hash_pw: pbkdf2_hmac with the configured secret as the salt
hash_pw(pw) == <<"pbkdf2_hmac", "sha512", pw, secret>>

-----------------------------------------------------------------------------
(* Accounts and the argon2 PasswordHasher *)

\* An argon2 hash names its parameters and is verified against a password;
\* the salt plays no part in what verify answers.
CurrentParams == "m=65536,t=3,p=4"
OldParams == "m=102400,t=2,p=8"

password_hasher_hash(pw) == <<"argon2id", CurrentParams, pw>>

\* PasswordHasher.verify: VerifyMismatchError for another password,
\* InvalidHash for a hash that is not an argon2 hash.
password_hasher_verify(hash, pw) ==
    IF hash[1] # "argon2id" THEN "InvalidHash"
    ELSE IF hash[3] # pw THEN "VerifyMismatchError"
    ELSE "ok"

check_needs_rehash(hash) == hash[2] # CurrentParams

\* The row of an id the store has not handed out yet.
NoAccount ==
    [stored |-> FALSE, email |-> None, username |-> None, phone |-> None,
     disabled |-> FALSE, verified |-> FALSE, deleted |-> FALSE]

NoHash == <<"none", "none", "none">>

\* No recovery is between its bulk update and its save.
NoRecovery == [account |-> None, hash |-> NoHash]

\* generate_initial_admin: the account every server starts with.  Its hash
\* was made under the parameters of an earlier release of the hasher.
InitialAdmin ==
    [stored |-> TRUE, email |-> "admin@mail.com", username |-> "Head Admin",
     phone |-> None, disabled |-> FALSE, verified |-> TRUE, deleted |-> FALSE]

InitialAdminHash == <<"argon2id", OldParams, "pw1">>

Init ==
    /\ sessions = <<>>
    /\ cookies = <<>>
    /\ history = <<>>
    /\ secret = "k1"
    /\ accounts = [a \in AccountIds |-> IF a = "alice" THEN InitialAdmin ELSE NoAccount]
    /\ password = [a \in AccountIds |-> IF a = "alice" THEN InitialAdminHash ELSE NoHash]
    /\ now = 0
    /\ requests = [r \in RequestIds |-> NoRequest]
    /\ recovering = NoRecovery
    /\ ip2proxy = [open |-> FALSE, opens |-> 0, closes |-> 0,
                   at |-> [r \in RequestIds |-> NoDetection]]
    /\ res = Idle

-----------------------------------------------------------------------------
(* Operations *)

\* A handler asks the factory for a session and encodes it into the response
\* (server.py: on_request_captcha, new_verification_request, on_login).
Issue(kind, ip, account, code, two_factor, token) ==
    /\ Len(sessions) < MaxSessions
    /\ LET r == SessionFactory_get(kind, ip, account, code, two_factor, token)
           uid == Len(sessions) + 1
       IN  IF r.err = "ok"
           THEN /\ sessions' = Append(sessions, r.row)
                /\ cookies' = Append(cookies, encode(uid, r.row, secret))
                /\ history' = Append(history, NoCalls)
                /\ res' = Result("issue", kind, uid, "ok")
           ELSE /\ UNCHANGED <<sessions, cookies, history>>
                /\ res' = Result("issue", kind, 0, r.err)
    /\ UNCHANGED <<ip2proxy, recovering, requests, accounts, password, secret, now>>

\* session.crosscheck_code(code) on the stored row uid
Crosscheck(uid, code) ==
    /\ uid \in Uids
    /\ LET r == crosscheck_code(sessions[uid], code)
       IN  /\ sessions' = [sessions EXCEPT ![uid] = r.row]
           /\ history' = [history EXCEPT ![uid] = Count(@, sessions[uid], code, r.err)]
           /\ res' = [Result("crosscheck", sessions[uid].kind, uid, r.err)
                        EXCEPT !.match = (sessions[uid].code = code)]
    /\ UNCHANGED <<ip2proxy, recovering, requests, accounts, password, secret, now, cookies>>

\* cls().decode(request) with the token in the cookie of that class
Decode(cls, token) ==
    /\ LET d == decode(cls, token)
       IN  res' = [Result("decode", cls, d.found, d.err)
                     EXCEPT !.tokuid = token.payload.uid,
                            !.stale = token # NoToken /\ token.signature[3] # secret]
    /\ UNCHANGED <<ip2proxy, recovering, requests, accounts, sessions, password, secret, now, cookies, history>>

\* One request's cls().decode(request): the model instance it returns is the
\* request's own copy of the row, read at this moment.  A token that does not
\* decode, or decodes to no row, ends the request.
RequestDecode(r, cls, token) ==
    /\ requests[r] = NoRequest
    /\ LET d == decode(cls, token)
       IN  /\ requests' = [requests EXCEPT ![r] =
                  IF d.err = "ok" /\ d.found # 0
                  THEN [uid |-> d.found, attempts |-> sessions[d.found].attempts,
                        valid |-> sessions[d.found].valid,
                        code |-> sessions[d.found].code]
                  ELSE NoRequest]
           /\ res' = [Result("request_decode", cls, d.found, d.err)
                        EXCEPT !.tokuid = token.payload.uid]
    /\ UNCHANGED <<ip2proxy, recovering, sessions, accounts, password, secret, now, cookies, history>>

\* One request's crosscheck_code on the instance its decode returned: the
\* tests read the instance, and save(update_fields=[...]) writes the one
\* changed column of the instance over the stored row.
RequestCrosscheck(r, code) ==
    /\ requests[r] # NoRequest
    /\ LET uid == requests[r].uid
           self == [sessions[uid] EXCEPT !.attempts = requests[r].attempts,
                                         !.valid = requests[r].valid,
                                         !.code = requests[r].code]
           out == crosscheck_code(self, code)
       IN  /\ sessions' = [sessions EXCEPT ![uid] =
                  IF out.err = "CrosscheckError"
                  THEN [@ EXCEPT !.attempts = out.row.attempts]
                  ELSE IF out.err = "ok"
                  THEN [@ EXCEPT !.valid = out.row.valid]
                  ELSE @]
           /\ history' = [history EXCEPT ![uid] = Count(@, self, code, out.err)]
           /\ res' = [Result("request_crosscheck", sessions[uid].kind, uid, out.err)
                        EXCEPT !.match = (self.code = code)]
    /\ requests' = [requests EXCEPT ![r] = NoRequest]
    /\ UNCHANGED <<ip2proxy, recovering, accounts, password, secret, now, cookies>>

\* A validate that stores the expiry it finds: valid is set False on the row
Validate_storing_expiry(cls, token) ==
    /\ LET d == decode(cls, token)
           e == IF d.err # "ok" THEN d.err ELSE ErrorFactory_get(d.found)
       IN  /\ res' = [Result("validate", cls, d.found, e)
                        EXCEPT !.tokuid = token.payload.uid]
           /\ sessions' = IF e = "ExpiredError"
                          THEN [sessions EXCEPT ![d.found].valid = FALSE]
                          ELSE sessions
    /\ UNCHANGED <<ip2proxy, recovering, requests, accounts, password, secret, now, cookies, history>>

\* decode, then ErrorFactory.throw on what decode returned
Validate(cls, token) ==
    /\ LET d == decode(cls, token)
           e == IF d.err # "ok" THEN d.err ELSE ErrorFactory_get(d.found)
       IN  res' = [Result("validate", cls, d.found, e)
                     EXCEPT !.tokuid = token.payload.uid]
    /\ UNCHANGED <<ip2proxy, recovering, requests, accounts, sessions, password, secret, now, cookies, history>>

\* An administrator soft-deletes a row (BaseModel.deleted).
SoftDelete(uid) ==
    /\ uid \in Uids
    /\ ~sessions[uid].deleted
    /\ sessions' = [sessions EXCEPT ![uid].deleted = TRUE]
    /\ res' = Idle
    /\ UNCHANGED <<ip2proxy, recovering, requests, accounts, password, secret, now, cookies, history>>

\* Time passes.  The rows are read against the clock only in the comparison
\* expiration_date < now, so the clock is advanced to the instants where a
\* comparison can change: an expiration date, and the minute after it.
Instants ==
    {sessions[u].expiration_date : u \in Uids}
        \cup {sessions[u].expiration_date + 1 : u \in Uids}

Tick(t) ==
    /\ t > now
    /\ now' = t
    /\ res' = Idle
    /\ UNCHANGED <<ip2proxy, recovering, requests, accounts, sessions, password, secret, cookies, history>>

\* The operator configures another signing secret.
ChangeSecret(k) ==
    /\ k # secret
    /\ secret' = k
    /\ res' = Idle
    /\ UNCHANGED <<ip2proxy, recovering, requests, accounts, sessions, password, now, cookies, history>>

\* on_second_factor without the test of the flag
on_second_factor_unchecked(token) ==
    LET d == decode("authentication", token)
    IN  IF d.err # "ok" THEN [err |-> d.err, found |-> 0, rows |-> sessions]
        ELSE IF d.found = 0
        THEN [err |-> "AttributeError", found |-> 0, rows |-> sessions]
        ELSE [err |-> "ok", found |-> d.found,
              rows |-> [sessions EXCEPT ![d.found].two_factor = FALSE]]

\* authentication.on_second_factor: the rows it saves and what it raises.
\* authentication_session.two_factor on the None of an absent row is an
\* AttributeError.
on_second_factor(token) ==
    LET d == decode("authentication", token)
    IN  IF d.err # "ok" THEN [err |-> d.err, found |-> 0, rows |-> sessions]
        ELSE IF d.found = 0
        THEN [err |-> "AttributeError", found |-> 0, rows |-> sessions]
        ELSE IF ~sessions[d.found].two_factor
        THEN [err |-> "SessionError", found |-> d.found, rows |-> sessions]
        ELSE [err |-> "ok", found |-> d.found,
              rows |-> [sessions EXCEPT ![d.found].two_factor = FALSE]]

OnSecondFactor(token) ==
    /\ LET r == on_second_factor(token)
       IN  /\ sessions' = r.rows
           /\ res' = [Result("on_second_factor", "authentication", r.found, r.err)
                        EXCEPT !.tokuid = token.payload.uid]
    /\ UNCHANGED <<ip2proxy, recovering, requests, accounts, password, secret, now, cookies, history>>

\* logout that also consumes the session
logout_invalidating(s) == [s EXCEPT !.active = FALSE, !.valid = FALSE]

\* authentication.logout on one row
logout(s) == [s EXCEPT !.active = FALSE]

Logout(uid) ==
    /\ uid \in Uids
    /\ sessions[uid].kind = "authentication"
    /\ sessions' = [sessions EXCEPT ![uid] = logout(@)]
    /\ res' = Result("logout", "authentication", uid, "ok")
    /\ UNCHANGED <<ip2proxy, recovering, requests, accounts, password, secret, now, cookies, history>>

\* The bulk update without its account filter
invalidate_sessions_of_everyone(account) ==
    [u \in Uids |->
        IF /\ sessions[u].kind = "authentication"
           /\ sessions[u].valid
           /\ ~sessions[u].deleted
        THEN [sessions[u] EXCEPT !.valid = FALSE]
        ELSE sessions[u]]

\* recovery.fulfill_account_recovery_attempt for the account of the two-step
\* session: the bulk update of the account's authentication sessions.
invalidate_sessions(account) ==
    [u \in Uids |->
        IF /\ sessions[u].kind = "authentication"
           /\ sessions[u].account = account
           /\ sessions[u].valid
           /\ ~sessions[u].deleted
        THEN [sessions[u] EXCEPT !.valid = FALSE]
        ELSE sessions[u]]

FulfillAccountRecoveryAttempt(account, pw) ==
    /\ sessions' = invalidate_sessions(account)
    /\ password' = [password EXCEPT ![account] = hash_pw(pw)]
    /\ res' = [Result("fulfill_account_recovery_attempt", None, 0, "ok")
                 EXCEPT !.account = account]
    /\ UNCHANGED <<ip2proxy, recovering, requests, accounts, secret, now, cookies, history>>

\* fulfill_account_recovery_attempt up to the end of its first await: the new
\* hash is put on the account instance and the bulk update is done.
RecoveryUpdate(account, pw) ==
    /\ recovering = NoRecovery
    /\ sessions' = invalidate_sessions(account)
    /\ recovering' = [account |-> account, hash |-> hash_pw(pw)]
    /\ res' = [Result("recovery_update", None, 0, "ok") EXCEPT !.account = account]
    /\ UNCHANGED <<ip2proxy, requests, accounts, password, secret, now, cookies, history>>

\* fulfill_account_recovery_attempt from there to its end: the password
\* column of the account instance is saved.
RecoverySave ==
    /\ recovering # NoRecovery
    /\ password' = [password EXCEPT ![recovering.account] = recovering.hash]
    /\ recovering' = NoRecovery
    /\ res' = [Result("fulfill_account_recovery_attempt", None, 0, "ok")
                 EXCEPT !.account = recovering.account]
    /\ UNCHANGED <<ip2proxy, requests, sessions, accounts, secret, now, cookies, history>>

-----------------------------------------------------------------------------
(* Proxy detection on the module-level IP2Proxy handle *)

\* The addresses the IP2Proxy database lists as proxies
ProxyIPs == {"9.9.9.9"}

\* ip2proxy_database.is_proxy on an open handle
is_proxy(ip) == IF ip \in ProxyIPs THEN 1 ELSE 0

\* What is_proxy does on a closed handle: it raises, or it answers -1.
ClosedLookups == {"raises", "answers"}

\* proxy_detection up to the end of its first await: the handle is opened.
ProxyOpen(r, ip) ==
    /\ ip2proxy.at[r] = NoDetection
    /\ ip2proxy' = [ip2proxy EXCEPT !.open = TRUE, !.opens = @ + 1,
                                    !.at[r] = [pc |-> "opened", ip |-> ip]]
    /\ res' = [Result("open", None, 0, "ok") EXCEPT !.ip = ip]
    /\ UNCHANGED <<sessions, accounts, password, secret, now, cookies, history,
                   requests, recovering>>

\* proxy_detection from there to the end of its second await: the lookup,
\* and the raise that ends the call for a proxy.
ProxyLookup(r, closed) ==
    /\ ip2proxy.at[r].pc = "opened"
    /\ LET ip == ip2proxy.at[r].ip
           answer == IF ip2proxy.open THEN is_proxy(ip)
                     ELSE IF closed = "answers" THEN -1 ELSE 0
           raised == IF ~ip2proxy.open /\ closed = "raises" THEN "Error"
                     ELSE IF answer > 0 THEN "ProxyDetectedError"
                     ELSE "ok"
       IN  /\ ip2proxy' = [ip2proxy EXCEPT !.at[r] =
                  IF raised = "ok" THEN [pc |-> "looked", ip |-> ip]
                  ELSE NoDetection]
           /\ res' = [Result(IF raised = "ok" THEN "is_proxy" ELSE "proxy_detection",
                             None, 0, raised) EXCEPT !.ip = ip]
    /\ UNCHANGED <<sessions, accounts, password, secret, now, cookies, history,
                   requests, recovering>>

\* proxy_detection from there to its end: the handle is closed.
ProxyClose(r) ==
    /\ ip2proxy.at[r].pc = "looked"
    /\ ip2proxy' = [ip2proxy EXCEPT !.open = FALSE, !.closes = @ + 1,
                                    !.at[r] = NoDetection]
    /\ res' = [Result("proxy_detection", None, 0, "ok")
                 EXCEPT !.ip = ip2proxy.at[r].ip]
    /\ UNCHANGED <<sessions, accounts, password, secret, now, cookies, history,
                   requests, recovering>>

-----------------------------------------------------------------------------
(* Authentication flow: the request guard *)

\* Account.ErrorFactory.get without the test of disabled
Account_ErrorFactory_get_no_disabled(account) ==
    IF account = None \/ ~accounts[account].stored THEN "NotFoundError"
    ELSE IF accounts[account].deleted THEN "DeletedError"
    ELSE IF ~accounts[account].verified THEN "UnverifiedError"
    ELSE "ok"

\* Account.ErrorFactory.get: the error of an account, "ok" for none.  account
\* is None, or the id of a row.
Account_ErrorFactory_get(account) ==
    IF account = None \/ ~accounts[account].stored THEN "NotFoundError"
    ELSE IF accounts[account].deleted THEN "DeletedError"
    ELSE IF accounts[account].disabled THEN "DisabledError"
    ELSE IF ~accounts[account].verified THEN "UnverifiedError"
    ELSE "ok"

\* crosscheck_location with the filter on the address left out
crosscheck_location_no_ip(s, ip) ==
    IF \E u \in Uids : /\ sessions[u].kind = "authentication"
                       /\ sessions[u].account = s.account
    THEN "ok"
    ELSE "UnknownLocationError"

\* AuthenticationSession.crosscheck_location: whether an authentication
\* session of the account recorded the request's address.
crosscheck_location(s, ip) ==
    IF \E u \in Uids : /\ sessions[u].kind = "authentication"
                       /\ sessions[u].ip = ip
                       /\ sessions[u].account = s.account
    THEN "ok"
    ELSE "UnknownLocationError"

\* session.crosscheck_location(request) on the stored authentication session
\* uid, for a request from the address ip
CrosscheckLocation(uid, ip) ==
    /\ uid \in Uids
    /\ sessions[uid].kind = "authentication"
    /\ res' = [Result("crosscheck_location", "authentication", uid,
                      crosscheck_location(sessions[uid], ip))
                 EXCEPT !.ip = ip]
    /\ UNCHANGED <<ip2proxy, recovering, requests, sessions, accounts, password, secret, now, cookies, history>>

\* Variants of authenticate with one check left out each
authenticate_no_second_factor(token, ip) ==
    LET d == decode("authentication", token)
    IN  IF d.err # "ok" THEN [err |-> d.err, found |-> 0]
        ELSE IF d.found = 0 THEN [err |-> "AttributeError", found |-> 0]
        ELSE IF ErrorFactory_get(d.found) # "ok"
        THEN [err |-> ErrorFactory_get(d.found), found |-> d.found]
        ELSE IF Account_ErrorFactory_get(sessions[d.found].account) # "ok"
        THEN [err |-> Account_ErrorFactory_get(sessions[d.found].account),
              found |-> d.found]
        ELSE [err |-> crosscheck_location(sessions[d.found], ip),
              found |-> d.found]

authenticate_no_account_validation(token, ip) ==
    LET d == decode("authentication", token)
    IN  IF d.err # "ok" THEN [err |-> d.err, found |-> 0]
        ELSE IF d.found = 0 THEN [err |-> "AttributeError", found |-> 0]
        ELSE IF ErrorFactory_get(d.found) # "ok"
        THEN [err |-> ErrorFactory_get(d.found), found |-> d.found]
        ELSE IF sessions[d.found].two_factor
        THEN [err |-> "SessionError", found |-> d.found]
        ELSE [err |-> crosscheck_location(sessions[d.found], ip),
              found |-> d.found]

\* authentication.authenticate: the session it returns, or what it raises.
\* authentication_session.validate() on the None of an absent row is an
\* AttributeError.
authenticate(token, ip) ==
    LET d == decode("authentication", token)
    IN  IF d.err # "ok" THEN [err |-> d.err, found |-> 0]
        ELSE IF d.found = 0 THEN [err |-> "AttributeError", found |-> 0]
        ELSE IF ErrorFactory_get(d.found) # "ok"
        THEN [err |-> ErrorFactory_get(d.found), found |-> d.found]
        ELSE IF Account_ErrorFactory_get(sessions[d.found].account) # "ok"
        THEN [err |-> Account_ErrorFactory_get(sessions[d.found].account),
              found |-> d.found]
        ELSE IF sessions[d.found].two_factor
        THEN [err |-> "SessionError", found |-> d.found]
        ELSE [err |-> crosscheck_location(sessions[d.found], ip),
              found |-> d.found]

\* requires_authentication: the wrapper calls authenticate and then the
\* handler; an error of authenticate leaves the wrapper before the handler.
requires_authentication(token, ip) ==
    LET r == authenticate(token, ip)
    IN  IF r.err # "ok"
        THEN [err |-> r.err, found |-> r.found, ran |-> FALSE]
        ELSE [err |-> "ok", found |-> r.found, ran |-> TRUE]

\* A request to a handler behind requires_authentication (server.py:
\* on_test_client).
RequiresAuthentication(token, ip) ==
    /\ LET r == requires_authentication(token, ip)
       IN  res' = [Result("authenticate", "authentication", r.found, r.err)
                     EXCEPT !.tokuid = token.payload.uid, !.ip = ip,
                            !.ran = r.ran]
    /\ UNCHANGED <<ip2proxy, recovering, requests, sessions, accounts, password, secret, now, cookies, history>>

-----------------------------------------------------------------------------
(* Authentication flow: login *)

StoredAccounts == {a \in AccountIds : accounts[a].stored}

\* Account.get_via_email, Account.get_via_username: the account that is not
\* deleted and has that email (that username), NotFoundError when there is
\* none.
get_via(field, value) ==
    LET found == {a \in StoredAccounts :
                     accounts[a][field] = value /\ ~accounts[a].deleted}
    IN  IF found = {} THEN [err |-> "NotFoundError", account |-> None]
        ELSE IF Cardinality(found) > 1
        THEN [err |-> "MultipleObjectsReturned", account |-> None]
        ELSE [err |-> "ok", account |-> CHOOSE a \in found : TRUE]

\* The Authorization header of a request: none, or a type and credentials.
NoAuthorization == [identifier |-> None, password |-> None, type |-> None]

\* authentication.login: the password column and the session row it leaves, or
\* what it raises.  given is the account argument, allow is
\* ALLOW_LOGIN_WITH_USERNAME.
login(authorization, given, two_factor, ip, allow) ==
    LET fail(e, a, pws) ==
            [err |-> e, account |-> a, passwords |-> pws,
             row |-> NewRow("authentication", ip, None, NoCode, now, FALSE)]
        via_email == get_via("email", authorization.identifier)
        lookup == IF given # None THEN [err |-> "ok", account |-> given]
                  ELSE IF via_email.err = "NotFoundError" /\ allow
                  THEN get_via("username", authorization.identifier)
                  ELSE via_email
    IN  IF authorization.type = None THEN fail("CredentialsError", None, password)
        ELSE IF authorization.type # "Basic"
        THEN fail("CredentialsError", None, password)
        ELSE IF lookup.err # "ok" THEN fail(lookup.err, None, password)
        ELSE LET a == lookup.account
                 verified == password_hasher_verify(password[a], authorization.password)
                 rehashed ==
                     IF check_needs_rehash(password[a])
                     THEN [password EXCEPT ![a] = password_hasher_hash(authorization.password)]
                     ELSE password
                 made == SessionFactory_get("authentication", ip, a, NoCode,
                                            two_factor, NoToken)
             IN  IF verified = "VerifyMismatchError"
                 THEN fail("CredentialsError", a, password)
                 ELSE IF verified # "ok" THEN fail(verified, a, password)
                 ELSE IF Account_ErrorFactory_get(a) # "ok"
                 THEN fail(Account_ErrorFactory_get(a), a, rehashed)
                 ELSE [err |-> made.err, account |-> a, passwords |-> rehashed,
                       row |-> made.row]

\* server.py on_login: login, then the session is encoded into the response.
Login(type, identifier, pw, given, two_factor, ip, allow) ==
    /\ LET authorization ==
               IF type = None THEN NoAuthorization
               ELSE [identifier |-> identifier, password |-> pw, type |-> type]
           r == login(authorization, given, two_factor, ip, allow)
           uid == Len(sessions) + 1
       IN  /\ r.err = "ok" => Len(sessions) < MaxSessions
           /\ password' = r.passwords
           /\ IF r.err = "ok"
              THEN /\ sessions' = Append(sessions, r.row)
                   /\ cookies' = Append(cookies, encode(uid, r.row, secret))
                   /\ history' = Append(history, NoCalls)
                   /\ res' = [Result("login", "authentication", uid, "ok")
                                EXCEPT !.account = r.account, !.ip = ip]
              ELSE /\ UNCHANGED <<sessions, cookies, history>>
                   /\ res' = [Result("login", "authentication", 0, r.err)
                                EXCEPT !.account = r.account, !.ip = ip]
    /\ UNCHANGED <<ip2proxy, recovering, requests, accounts, secret, now>>

-----------------------------------------------------------------------------
(* Authentication flow: refresh_authentication *)

\* AuthenticationSession.redeem: the presented authentication session,
\* decoded and validated.
redeem(token) ==
    LET d == decode("authentication", token)
    IN  IF d.err # "ok" THEN [err |-> d.err, found |-> 0]
        ELSE [err |-> ErrorFactory_get(d.found), found |-> d.found]

\* refresh_authentication that decodes the presented session and does not
\* validate it
refresh_authentication_unredeemed(token, two_factor, ip) ==
    LET d == decode("authentication", token)
        bearer == IF d.found = 0 THEN None ELSE sessions[d.found].account
        made == SessionFactory_get("authentication", ip, bearer, NoCode,
                                   two_factor, token)
    IN  IF d.err # "ok" \/ d.found = 0
        THEN [err |-> IF d.err # "ok" THEN d.err ELSE "NotFoundError",
              found |-> 0,
              row |-> NewRow("authentication", ip, None, NoCode, now, FALSE)]
        ELSE [err |-> made.err, found |-> d.found, row |-> made.row]

\* authentication.refresh_authentication: the session row it creates for the
\* bearer of the redeemed session, or what it raises.
refresh_authentication(token, two_factor, ip) ==
    LET r == redeem(token)
        bearer == IF r.found = 0 THEN None ELSE sessions[r.found].account
        made == SessionFactory_get("authentication", ip, bearer, NoCode,
                                   two_factor, token)
    IN  IF r.err # "ok"
        THEN [err |-> r.err, found |-> r.found,
              row |-> NewRow("authentication", ip, None, NoCode, now, FALSE)]
        ELSE [err |-> made.err, found |-> r.found, row |-> made.row]

\* A handler that refreshes and encodes the new session into the response.
\* A refresh may add one session to those the logins made.
RefreshAuthentication(token, two_factor, ip) ==
    /\ LET r == refresh_authentication(token, two_factor, ip)
           uid == Len(sessions) + 1
       IN  /\ r.err = "ok" => Len(sessions) < MaxSessions + 1
           /\ IF r.err = "ok"
              THEN /\ sessions' = Append(sessions, r.row)
                   /\ cookies' = Append(cookies, encode(uid, r.row, secret))
                   /\ history' = Append(history, NoCalls)
                   /\ res' = [Result("refresh_authentication", "authentication", uid, "ok")
                                EXCEPT !.tokuid = token.payload.uid, !.ip = ip]
              ELSE /\ UNCHANGED <<sessions, cookies, history>>
                   /\ res' = [Result("refresh_authentication", "authentication", 0, r.err)
                                EXCEPT !.tokuid = token.payload.uid, !.ip = ip]
    /\ UNCHANGED <<ip2proxy, recovering, requests, accounts, password, secret, now>>

-----------------------------------------------------------------------------
(* Authentication flow: register *)

\* What a client can put into the form.  email.lower() and the three
\* patterns of register are tabulated over these strings.
Emails == {"Bob@mail.com", "bob@mail.com", "admin@mail.com", "bob.mail.com"}
Usernames == {"bob_1", "b!"}
Phones == {None, "15621435489", "123"}
\* Passwords of 3, 11 and 100 characters
FormPasswords ==
    {"pw2", "password-12",
     "p012345678901234567890123456789012345678901234567890123456789012345678901234567890123456789-12345678"}

lower(email) == IF email = "Bob@mail.com" THEN "bob@mail.com" ELSE email

\* ^[a-zA-Z0-9_.+-]+@[a-zA-Z0-9-]+\.[a-zA-Z0-9-.]+$
EmailPattern(email) == email \in {"Bob@mail.com", "bob@mail.com", "admin@mail.com"}

\* ^[A-Za-z0-9_-]{3,32}$
UsernamePattern(username) == username \in {"bob_1"}

\* ^[0-9]{11,14}$
PhonePattern(phone) == phone \in {"15621435489"}

\* Account.create under the unique constraints on email and on phone (a null
\* phone collides with nothing): whether the insert raises IntegrityError.
IntegrityError(email, phone) ==
    \E a \in StoredAccounts :
        \/ accounts[a].email = email
        \/ phone # None /\ accounts[a].phone = phone

\* authentication.register: the account it creates, or what it raises.
register(form, verified, disabled) ==
    LET fail(m) == [err |-> "CredentialsError", msg |-> m, row |-> NoAccount,
                    hash |-> NoHash]
    IN  IF ~EmailPattern(form.email) THEN fail("Please use a valid email")
        ELSE IF ~UsernamePattern(form.username) THEN fail("Username must be")
        ELSE IF form.phone # None /\ ~PhonePattern(form.phone)
        THEN fail("Please use a valid phone format")
        ELSE IF 100 > Len(form.password) /\ Len(form.password) > 8
        THEN fail("Password must be more than 8 characters")
        ELSE IF IntegrityError(lower(form.email), form.phone)
        THEN fail("An account with these credentials may already exist.")
        ELSE [err |-> "ok", msg |-> None,
              row |-> [stored |-> TRUE, email |-> lower(form.email),
                       username |-> form.username, phone |-> form.phone,
                       disabled |-> disabled, verified |-> verified,
                       deleted |-> FALSE],
              hash |-> password_hasher_hash(form.password)]

\* server.py on_register, on_register_verification: the store gives the new
\* row the next id.
Register(email, username, phone, pw, verified, disabled) ==
    /\ LET form == [email |-> email, password |-> pw, phone |-> phone,
                    username |-> username]
           r == register(form, verified, disabled)
           free == {a \in AccountIds : ~accounts[a].stored}
           id == CHOOSE a \in free : TRUE
       IN  IF r.err = "ok"
           THEN /\ free # {}
                /\ accounts' = [accounts EXCEPT ![id] = r.row]
                /\ password' = [password EXCEPT ![id] = r.hash]
                /\ res' = [Result("register", None, 0, "ok")
                             EXCEPT !.account = id, !.form = form]
           ELSE /\ UNCHANGED <<accounts, password>>
                /\ res' = [Result("register", None, 0, r.err)
                             EXCEPT !.msg = r.msg, !.form = form]
    /\ UNCHANGED <<ip2proxy, recovering, requests, sessions, secret, now, cookies, history>>

\* An administrator disables an account, or soft-deletes it.
DisableAccount(a) ==
    /\ accounts[a].stored
    /\ ~accounts[a].disabled
    /\ accounts' = [accounts EXCEPT ![a].disabled = TRUE]
    /\ res' = Idle
    /\ UNCHANGED <<ip2proxy, recovering, requests, sessions, password, secret, now, cookies, history>>

DeleteAccount(a) ==
    /\ accounts[a].stored
    /\ ~accounts[a].deleted
    /\ accounts' = [accounts EXCEPT ![a].deleted = TRUE]
    /\ res' = Idle
    /\ UNCHANGED <<ip2proxy, recovering, requests, sessions, password, secret, now, cookies, history>>

\* The inputs of the session engine's operations
EngineAccounts == {"alice"}
EngineIPs == {"1.2.3.4"}
NewPasswords == {"pw2"}

IssueStep ==
    \E kind \in Kinds \cup {"other"}, ip \in EngineIPs,
       account \in EngineAccounts \cup {None},
       two_factor \in BOOLEAN, token \in Tokens :
         /\ two_factor => kind = "authentication"
         /\ token # NoToken => account = None /\ kind \in {"verification", "authentication"}
         /\ Issue(kind, ip, account, CodePool(Len(sessions) + 1), two_factor, token)

OnSecondFactorStep == \E token \in Tokens : OnSecondFactor(token)

LogoutStep == \E uid \in Uids : Logout(uid)

RecoveryStep ==
    \E account \in EngineAccounts, pw \in NewPasswords :
       FulfillAccountRecoveryAttempt(account, pw)

AccountRecoveryStep ==
    \E account \in StoredAccounts, pw \in NewPasswords :
       FulfillAccountRecoveryAttempt(account, pw)

RefreshAuthenticationStep ==
    \E token \in Tokens, two_factor \in BOOLEAN, ip \in EngineIPs :
       RefreshAuthentication(token, two_factor, ip)

\* The initial administrator logs in with the right password.
OwnerLoginStep ==
    \E ip \in EngineIPs :
       Login("Basic", InitialAdmin.email, InitialAdminHash[3], None, FALSE, ip, FALSE)

CrosscheckLocationStep ==
    \E uid \in Uids, ip \in IPs : CrosscheckLocation(uid, ip)

RecoveryUpdateStep ==
    \E account \in StoredAccounts, pw \in NewPasswords : RecoveryUpdate(account, pw)

RecoverySaveStep == RecoverySave

CrosscheckStep ==
    \E uid \in Uids, code \in PresentedCodes :
       sessions[uid].kind \in CodeKinds /\ Crosscheck(uid, code)

DecodeStep == \E cls \in Kinds, token \in Tokens : Decode(cls, token)

ValidateStep == \E cls \in Kinds, token \in Tokens : Validate(cls, token)

SoftDeleteStep == \E uid \in Uids : SoftDelete(uid)

TickStep == \E t \in Instants : Tick(t)

ChangeSecretStep == \E k \in Secrets : ChangeSecret(k)

\* The inputs of the authentication flow
LoginIdentifiers == {"admin@mail.com", "bob@mail.com", "Bob@mail.com", "bob_1"}

AuthenticateStep == \E token \in Tokens, ip \in IPs : RequiresAuthentication(token, ip)

\* A login request: without credentials, for an account the caller passes, or
\* for the account the credentials name.
LoginStep ==
    \/ \E type \in {None, "Bearer"}, ip \in EngineIPs :
            Login(type, None, None, None, FALSE, ip, FALSE)
    \/ \E given \in StoredAccounts, pw \in Passwords, two_factor \in BOOLEAN,
          ip \in EngineIPs :
            Login("Basic", accounts[given].email, pw, given, two_factor, ip, FALSE)
    \/ \E identifier \in LoginIdentifiers, pw \in Passwords,
          two_factor \in BOOLEAN, ip \in EngineIPs, allow \in BOOLEAN :
            Login("Basic", identifier, pw, None, two_factor, ip, allow)

\* The first account logs in from one address or another.
AdminLoginStep ==
    \E pw \in Passwords, two_factor \in BOOLEAN, ip \in IPs :
       Login("Basic", InitialAdmin.email, pw, None, two_factor, ip, FALSE)

RegisterStep ==
    \E email \in Emails, username \in Usernames, phone \in Phones,
       pw \in FormPasswords, verified \in BOOLEAN, disabled \in BOOLEAN :
         Register(email, username, phone, pw, verified, disabled)

\* One visitor signs up, with or without the verification requirement.
SignUpStep ==
    \E verified \in BOOLEAN, disabled \in BOOLEAN :
       Register("bob@mail.com", "bob_1", None, "pw2", verified, disabled)

CaptchaStep ==
    \E ip \in IPs :
       Issue("captcha", ip, None, CodePool(Len(sessions) + 1), FALSE, NoToken)

RequestDecodeStep ==
    \E r \in RequestIds, token \in Tokens : RequestDecode(r, "captcha", token)

RequestCrosscheckStep ==
    \E r \in RequestIds, code \in PresentedCodes :
       /\ requests[r] # NoRequest
       /\ history[requests[r].uid].failed <= MaxAttempts
       /\ RequestCrosscheck(r, code)

ProxyOpenStep ==
    \E r \in RequestIds, ip \in IPs :
       ip2proxy.opens < MaxOpens /\ ProxyOpen(r, ip)

ProxyLookupStep ==
    \E r \in RequestIds, closed \in ClosedLookups :
       /\ ip2proxy.open => closed = "raises"
       /\ ProxyLookup(r, closed)

ProxyCloseStep == \E r \in RequestIds : ProxyClose(r)

DisableAccountStep == \E a \in AccountIds : DisableAccount(a)

DeleteAccountStep == \E a \in AccountIds : DeleteAccount(a)

Next ==
    \/ IssueStep
    \/ OnSecondFactorStep
    \/ LogoutStep
    \/ RecoveryStep
    \/ CrosscheckStep
    \/ DecodeStep
    \/ ValidateStep
    \/ SoftDeleteStep
    \/ TickStep
    \/ ChangeSecretStep

Spec == Init /\ [][Next]_vars

(* The handlers alone, with the clock, the secret and the deleted flags left
   as they are: every sequence of session operations. *)
NextSessions ==
    \/ IssueStep
    \/ OnSecondFactorStep
    \/ LogoutStep
    \/ RecoveryStep
    \/ CrosscheckStep
    \/ DecodeStep
    \/ ValidateStep

SpecSessions == Init /\ [][NextSessions]_vars

(* Validation of sessions that are invalidated, deleted and left to expire
   in every order. *)
NextValidate ==
    \/ IssueStep
    \/ RecoveryStep
    \/ SoftDeleteStep
    \/ TickStep
    \/ ValidateStep

SpecValidate == Init /\ [][NextValidate]_vars

(* Decoding of tokens while the secret changes, sessions are deleted and
   time passes. *)
NextDecode ==
    \/ IssueStep
    \/ SoftDeleteStep
    \/ TickStep
    \/ ChangeSecretStep
    \/ DecodeStep

SpecDecode == Init /\ [][NextDecode]_vars

(* The request guard on sessions that login made, while sessions are logged
   out, cleared of their second factor, deleted and left to expire, and the
   account is disabled or deleted. *)
NextAuthenticate ==
    \/ AdminLoginStep
    \/ OnSecondFactorStep
    \/ LogoutStep
    \/ AuthenticateStep
    \/ SoftDeleteStep
    \/ TickStep
    \/ DeleteAccountStep

SpecAuthenticate == Init /\ [][NextAuthenticate]_vars

(* Registration of accounts that an administrator disables or deletes. *)
NextRegister ==
    \/ RegisterStep
    \/ DisableAccountStep
    \/ DeleteAccountStep

SpecRegister == Init /\ [][NextRegister]_vars

(* Login on registered accounts that an administrator disables or deletes. *)
NextLogin ==
    \/ SignUpStep
    \/ LoginStep
    \/ DisableAccountStep
    \/ DeleteAccountStep

SpecLogin == Init /\ [][NextLogin]_vars

(* Several requests at once that present a code for the same captcha.  A
   request decodes its cookie and then crosschecks; the server may work on
   another request between the two.  The calls on one session stop once
   MaxAttempts + 1 of them have raised CrosscheckError. *)
NextRequests ==
    \/ CaptchaStep
    \/ RequestDecodeStep
    \/ RequestCrosscheckStep

SpecRequests == Init /\ [][NextRequests]_vars

(* Accounts that log in, recover their password, and whose sessions an
   administrator soft-deletes. *)
NextRecovery ==
    \/ SignUpStep
    \/ LoginStep
    \/ AccountRecoveryStep
    \/ SoftDeleteStep

SpecRecovery == Init /\ [][NextRecovery]_vars

(* Session operations while the clock runs past the expiration dates. *)
NextExpiry ==
    \/ IssueStep
    \/ TickStep
    \/ CrosscheckStep
    \/ OnSecondFactorStep
    \/ AuthenticateStep

SpecExpiry == Init /\ [][NextExpiry]_vars

(* Sessions that login made are refreshed, while they are revoked by a
   password recovery, deleted and left to expire. *)
NextRefresh ==
    \/ OwnerLoginStep
    \/ RefreshAuthenticationStep
    \/ RecoveryStep
    \/ SoftDeleteStep
    \/ TickStep

SpecRefresh == Init /\ [][NextRefresh]_vars

(* Tokens are decoded and validated while sessions are issued, deleted and
   left to expire. *)
NextRead ==
    \/ IssueStep
    \/ SoftDeleteStep
    \/ TickStep
    \/ DecodeStep
    \/ ValidateStep

SpecRead == Init /\ [][NextRead]_vars

(* The location check on sessions that login made from several addresses,
   while sessions are logged out, soft-deleted and left to expire. *)
NextLocation ==
    \/ AdminLoginStep
    \/ LogoutStep
    \/ SoftDeleteStep
    \/ TickStep
    \/ CrosscheckLocationStep
    \/ AuthenticateStep

SpecLocation == Init /\ [][NextLocation]_vars

(* A password recovery and logins at the same time: the server may work on
   a login between the two awaits of the recovery. *)
NextRecoveryRace ==
    \/ AdminLoginStep
    \/ SoftDeleteStep
    \/ RecoveryUpdateStep
    \/ RecoverySaveStep

SpecRecoveryRace == Init /\ [][NextRecoveryRace]_vars

(* Requests that pass the proxy detection middleware at the same time: the
   server may work on another request at each await of proxy_detection. *)
NextProxy ==
    \/ ProxyOpenStep
    \/ ProxyLookupStep
    \/ ProxyCloseStep

SpecProxy == Init /\ [][NextProxy]_vars

-----------------------------------------------------------------------------
(* Properties *)

Crosschecked == res.op = "crosscheck"
Before == res.before[res.uid]
After == sessions[res.uid]
CallsBefore == res.hbefore[res.uid]

\* C1: once 5 crosscheck calls on a session have raised CrosscheckError, every
\* further crosscheck on it raises MaximumAttemptsError, also with the
\* session's own code.
C1_MaximumAttemptsAfterFiveFailures ==
    Crosschecked /\ CallsBefore.failed >= 5 => res.err = "MaximumAttemptsError"

C1_Witness ==
    /\ Crosschecked
    /\ CallsBefore.failed = 5
    /\ res.match
    /\ res.err = "MaximumAttemptsError"

\* C2 as stated: a crosscheck with a wrong code adds exactly 1 to attempts,
\* whatever attempts was, and does not set valid to false.
C2_WrongCodeAlwaysIncrements ==
    Crosschecked /\ ~res.match =>
        /\ After.attempts = Before.attempts + 1
        /\ After.valid = Before.valid

\* C2 amended: a crosscheck with a wrong code adds exactly 1 to attempts when
\* attempts was below 5 and leaves attempts at 5 when it was 5 (the call then
\* raises MaximumAttemptsError); it never changes valid.
C2_WrongCodeIncrementsBelowLimit ==
    Crosschecked /\ ~res.match =>
        /\ Before.attempts < 5 =>
              After.attempts = Before.attempts + 1 /\ res.err = "CrosscheckError"
        /\ Before.attempts >= 5 =>
              After.attempts = Before.attempts /\ res.err = "MaximumAttemptsError"
        /\ After.valid = Before.valid

C2_Witness ==
    /\ Crosschecked
    /\ ~res.match
    /\ Before.attempts = 4
    /\ After.attempts = 5
    /\ After.valid

\* C3: the attempts counter of every session is between 0 and 5.
C3_AttemptsWithinBounds ==
    \A u \in Uids : sessions[u].attempts \in 0..5

C3_Witness ==
    /\ Crosschecked
    /\ ~res.match
    /\ Before.attempts = 5
    /\ After.attempts = 5

\* C4: valid is a latch: no step takes the valid flag of a session from false
\* back to true.
C4_ValidIsALatch ==
    [][\A u \in Uids : ~sessions[u].valid => ~sessions'[u].valid]_vars

C4_Witness ==
    /\ res.op \in {"crosscheck", "on_second_factor", "logout",
                    "fulfill_account_recovery_attempt"}
    /\ \E u \in Uids : ~res.before[u].valid /\ ~sessions[u].valid

\* C5: validate on a stored session that is not deleted, has valid = true and
\* has expired raises ExpiredError.
C5_ExpiredButValidIsExpiredError ==
    /\ res.op = "validate"
    /\ res.uid # 0
    /\ ~After.deleted
    /\ After.valid
    /\ After.expiration_date < now
    => res.err = "ExpiredError"

C5_Witness ==
    /\ res.op = "validate"
    /\ res.uid # 0
    /\ ~After.deleted
    /\ After.valid
    /\ After.expiration_date < now
    /\ res.err = "ExpiredError"

Validated == res.op = "validate" /\ res.err # "DecodeError"

\* C6 as stated: validate reports the first of absent, deleted, valid = false,
\* expired that applies.
C6_DeletionBeforeInvalidity ==
    Validated =>
        res.err = IF res.uid = 0 THEN "NotFoundError"
                  ELSE IF After.deleted THEN "DeletedError"
                  ELSE IF ~After.valid THEN "InvalidError"
                  ELSE IF After.expiration_date < now THEN "ExpiredError"
                  ELSE "ok"

\* C6 amended: validate reports the first of absent, valid = false, deleted,
\* expired that applies: a session that is deleted and has valid = false raises
\* InvalidError, and so does one that has valid = false and has expired.
C6_InvalidityBeforeDeletion ==
    Validated =>
        /\ res.uid = 0 <=> res.err = "NotFoundError"
        /\ res.uid # 0 =>
            /\ ~After.valid <=> res.err = "InvalidError"
            /\ After.valid /\ After.deleted <=> res.err = "DeletedError"
            /\ After.valid /\ ~After.deleted /\ After.expiration_date < now
                  <=> res.err = "ExpiredError"

C6_Witness ==
    /\ Validated
    /\ res.uid # 0
    /\ After.deleted
    /\ ~After.valid
    /\ After.expiration_date < now
    /\ res.err = "InvalidError"

Decoded == res.op = "decode"

\* C7: a token signed under another secret than the configured one raises
\* DecodeError, and a token signed under the configured secret decodes to its
\* session whether or not the session has expired.
C7_StaleSecretIsDecodeError ==
    /\ Decoded /\ res.stale => res.err = "DecodeError"
    /\ Decoded /\ ~res.stale /\ res.tokuid \in Uids
          /\ sessions[res.tokuid].kind = res.cls
          => res.err = "ok" /\ res.uid = res.tokuid

C7_Witness ==
    /\ Decoded
    /\ res.stale
    /\ res.tokuid \in Uids
    /\ sessions[res.tokuid].kind = res.cls
    /\ res.err = "DecodeError"

C7_WitnessExpired ==
    /\ Decoded
    /\ ~res.stale
    /\ res.uid # 0
    /\ After.expiration_date < now
    /\ res.err = "ok"

\* C8 as stated: validate on the token of a soft-deleted session raises
\* NotFoundError.
C8_DeletedIsNotFoundError ==
    Validated /\ res.uid # 0 /\ After.deleted => res.err = "NotFoundError"

\* C8 amended: validate on the token of a soft-deleted session never passes:
\* it raises DeletedError when the session has valid = true and InvalidError
\* when it has valid = false.
C8_DeletedIsDeletedOrInvalidError ==
    Validated /\ res.uid # 0 /\ After.deleted =>
        res.err = IF After.valid THEN "DeletedError" ELSE "InvalidError"

C8_Witness ==
    /\ Validated
    /\ res.uid # 0
    /\ After.deleted
    /\ After.valid
    /\ res.err = "DeletedError"

\* C9: decode of a correctly signed token whose uid is no row of the class
\* raises NotFoundError.
C9_AbsentSessionIsNotFoundError ==
    /\ Decoded
    /\ res.tokuid # 0
    /\ ~res.stale
    /\ first_by_uid(res.cls, res.tokuid) = 0
    => res.err = "NotFoundError"

\* C10: on a session with a code, after k <= 4 crosscheck calls that all had a
\* wrong code, a call with a wrong code raises CrosscheckError and a call with
\* the session's code returns, leaving attempts = k and valid = false.
FreshAfterWrongCalls(k) ==
    /\ Crosschecked
    /\ Before.kind \in CodeKinds
    /\ CallsBefore.passed = 0
    /\ CallsBefore.wrong = k
    /\ CallsBefore.failed = k

C10_WrongCallsThenOwnCode ==
    \A k \in 0..4 :
        FreshAfterWrongCalls(k) =>
            IF res.match
            THEN res.err = "ok" /\ After.attempts = k /\ ~After.valid
            ELSE res.err = "CrosscheckError"

C10_Witness ==
    /\ FreshAfterWrongCalls(4)
    /\ res.match
    /\ res.err = "ok"
    /\ After.attempts = 4
    /\ ~After.valid

\* C11: over the crosscheck calls made on one session at most one returns: a
\* call with the session's code on a session that a crosscheck has already
\* consumed does not return again.
C11_AtMostOneCrosscheckSucceeds ==
    \A u \in Uids : history[u].passed <= 1

Authenticated == res.op = "authenticate" /\ res.uid # 0

\* What authenticate looks at, read from the stored rows
SessionPasses(s) == s.valid /\ ~s.deleted /\ ~(s.expiration_date < now)

AccountPasses(a) ==
    /\ a # None
    /\ accounts[a].stored
    /\ ~accounts[a].deleted
    /\ ~accounts[a].disabled
    /\ accounts[a].verified

KnownLocation(a, ip) ==
    \E u \in Uids : /\ sessions[u].kind = "authentication"
                    /\ sessions[u].account = a
                    /\ sessions[u].ip = ip

\* C12: authenticate with the token of an authentication session that logout
\* has been performed on (active = false) fails.
C12_LoggedOutSessionFailsAuthenticate ==
    Authenticated /\ ~After.active => res.err # "ok"

\* C13: while the two_factor flag of an authentication session is set,
\* authenticate with its token never returns, and raises the SessionError of
\* the second factor when the session and its account pass validation; the
\* flag is cleared only by a call of on_second_factor on the session that
\* returns; once it is cleared, authenticate with the same token returns when
\* the session is active and passes validation, the account passes validation
\* and the address is known.
C13_SecondFactorGate ==
    /\ [](Authenticated =>
            /\ After.two_factor => res.err # "ok"
            /\ After.two_factor /\ SessionPasses(After) /\ AccountPasses(After.account)
                  => res.err = "SessionError"
            /\ ~After.two_factor /\ After.active /\ SessionPasses(After)
                  /\ AccountPasses(After.account)
                  /\ KnownLocation(After.account, res.ip)
                  => res.err = "ok")
    /\ [][\A u \in Uids :
            sessions[u].two_factor /\ ~sessions'[u].two_factor =>
                res'.op = "on_second_factor" /\ res'.uid = u /\ res'.err = "ok"]_vars

\* on_second_factor has just cleared a pending flag, and authenticate with
\* the same token now returns.
C13_Witness ==
    /\ res.op = "on_second_factor"
    /\ res.err = "ok"
    /\ Before.two_factor
    /\ ~After.two_factor
    /\ authenticate(cookies[res.uid], After.ip).err = "ok"

C13_WitnessPending ==
    /\ Authenticated
    /\ After.two_factor
    /\ SessionPasses(After)
    /\ AccountPasses(After.account)
    /\ res.err = "SessionError"

\* C14: on_second_factor on an authentication session whose two_factor flag is
\* false raises SessionError and leaves every session as it was.
C14_NoPendingSecondFactorIsSessionError ==
    /\ res.op = "on_second_factor"
    /\ res.uid # 0
    /\ ~Before.two_factor
    => res.err = "SessionError" /\ sessions = res.before

C14_Witness ==
    /\ res.op = "on_second_factor"
    /\ res.uid # 0
    /\ ~Before.two_factor
    /\ res.err = "SessionError"
    /\ sessions = res.before

\* C15: the session that login creates records the address of the login
\* request, in the row and in the token; when authenticate reaches the location
\* check, it raises UnknownLocationError exactly when no authentication session
\* of the account recorded the request's address, so the token passes from the
\* address its own session recorded.
C15_UnknownLocationIsRejected ==
    /\ res.op = "login" /\ res.err = "ok" =>
          /\ After.ip = res.ip
          /\ After.kind = "authentication"
          /\ cookies[res.uid].payload.ip = res.ip
    /\ Authenticated /\ SessionPasses(After) /\ AccountPasses(After.account)
          /\ ~After.two_factor =>
          /\ ~KnownLocation(After.account, res.ip) <=> res.err = "UnknownLocationError"
          /\ KnownLocation(After.account, res.ip) <=> res.err = "ok"
          /\ res.ip = After.ip => res.err = "ok"

C15_Witness ==
    /\ Authenticated
    /\ After.ip = "1.2.3.4"
    /\ res.ip = "9.9.9.9"
    /\ res.err = "UnknownLocationError"

C15_WitnessRecorded ==
    /\ Authenticated
    /\ res.ip = After.ip
    /\ res.err = "ok"

\* C18: the handler behind requires_authentication runs only when the token
\* names a stored authentication session, that session passes validation, its
\* account passes validation, its two_factor flag is false and the request's
\* address is a recorded one; it runs exactly when authenticate raises nothing.
C18_HandlerRunsOnlyWhenAuthenticated ==
    res.op = "authenticate" =>
        /\ res.ran <=> res.err = "ok"
        /\ res.ran =>
              /\ res.uid # 0
              /\ res.uid = res.tokuid
              /\ After.kind = "authentication"
              /\ SessionPasses(After)
              /\ AccountPasses(After.account)
              /\ ~After.two_factor
              /\ KnownLocation(After.account, res.ip)

C18_Witness ==
    /\ res.op = "authenticate"
    /\ res.ran
    /\ res.err = "ok"

C18_WitnessAccount ==
    /\ Authenticated
    /\ SessionPasses(After)
    /\ ~AccountPasses(After.account)
    /\ ~res.ran
    /\ res.err = "DeletedError"

Registered == res.op = "register"

\* A form that has the shape the documentation of register asks for
WellFormed(form) ==
    /\ EmailPattern(form.email)
    /\ UsernamePattern(form.username)
    /\ form.phone = None \/ PhonePattern(form.phone)
    /\ Len(form.password) > 8
    /\ Len(form.password) < 100

EmailTaken(email, rows) ==
    \E a \in AccountIds : rows[a].stored /\ rows[a].email = lower(email)

\* C16: register with a well-formed form whose email, lower-cased, is the
\* email of a stored account raises the CredentialsError 'An account with
\* these credentials may already exist.', and no two stored accounts have the
\* same email.
C16_DuplicateEmailIsGenericError ==
    /\ Registered /\ WellFormed(res.form) /\ EmailTaken(res.form.email, res.abefore) =>
          /\ res.err = "CredentialsError"
          /\ res.msg = "An account with these credentials may already exist."
    /\ \A a, b \in StoredAccounts : accounts[a].email = accounts[b].email => a = b

\* The second half of C16 alone
C16_NoTwoAccountsShareAnEmail ==
    \A a, b \in StoredAccounts : accounts[a].email = accounts[b].email => a = b

\* C17: a login that raises leaves every account, every password hash and
\* every session as they were when it was called.
C17_FailedLoginChangesNothing ==
    res.op = "login" /\ res.err # "ok" =>
        /\ accounts = res.abefore
        /\ password = res.pbefore
        /\ sessions = res.before

\* C19: a login that returns created a session for an account that is stored,
\* not deleted, not disabled and verified; a login that got past the password
\* reports the first of deleted, disabled, unverified that applies to the
\* account.
C19_LoginNeedsAValidAccount ==
    /\ res.op = "login" /\ res.err = "ok" =>
          /\ AccountPasses(res.account)
          /\ After.account = res.account
          /\ Len(sessions) = Len(res.before) + 1
    /\ res.op = "login" /\ res.err # "ok" => sessions = res.before
    /\ res.op = "login" /\ res.account # None
          /\ res.err \notin {"CredentialsError", "InvalidHash"} =>
          res.err = IF accounts[res.account].deleted THEN "DeletedError"
                    ELSE IF accounts[res.account].disabled THEN "DisabledError"
                    ELSE IF ~accounts[res.account].verified THEN "UnverifiedError"
                    ELSE "ok"

C19_Witness ==
    /\ res.op = "login"
    /\ res.account # None
    /\ ~accounts[res.account].deleted
    /\ accounts[res.account].disabled
    /\ ~accounts[res.account].verified
    /\ res.err = "DisabledError"
    /\ sessions = res.before

C19_WitnessDeleted ==
    /\ res.op = "login"
    /\ res.account # None
    /\ accounts[res.account].deleted
    /\ accounts[res.account].disabled
    /\ res.err = "DeletedError"

-----------------------------------------------------------------------------
(* C20: under every interleaving of the requests that crosscheck a code on
   the same session, the stored attempts of the session equals the number
   of its crosschecks that raised CrosscheckError, and no more than
   MaxAttempts of its crosschecks raise CrosscheckError. *)
C20_AttemptLimitHoldsUnderConcurrency ==
    \A u \in Uids :
       /\ sessions[u].attempts = history[u].failed
       /\ history[u].failed <= MaxAttempts

-----------------------------------------------------------------------------
(* C21: every session the factory returns obeys the policy of its kind: a
   captcha expires 1 minute after issue, has a 6-character code and no
   account; a verification session expires 1 minute after issue, has the
   full code and an account; an authentication session expires 30 days
   after issue, has no code and an account; every new session is valid with
   0 attempts; an unknown kind creates no session. *)
Issued == res.op = "issue"

PolicyMinutes(kind) == IF kind = "authentication" THEN 30 * MinutesPerDay ELSE 1

C21_FactoryObeysThePolicy ==
    Issued =>
       IF res.err # "ok" THEN sessions = res.before
       ELSE /\ res.cls \in Kinds
            /\ Len(sessions) = Len(res.before) + 1
            /\ After.kind = res.cls
            /\ After.valid /\ After.attempts = 0
            /\ After.expiration_date = After.date_created + PolicyMinutes(res.cls)
            /\ res.cls = "captcha" =>
                  Len(After.code) = 6 /\ After.account = None
            /\ res.cls = "verification" =>
                  After.code = CodePool(res.uid) /\ After.account # None
            /\ res.cls = "authentication" =>
                  After.code = NoCode /\ After.account # None

-----------------------------------------------------------------------------
(* C22: after fulfill_account_recovery_attempt for an account, every
   authentication session of the account that is not deleted has valid
   False, authenticate fails with every token of the account issued before,
   and the valid flag of every session of another account is as it was. *)
Recovered == res.op = "fulfill_account_recovery_attempt"

C22_RecoveryRevokesTheAccountsSessions ==
    Recovered =>
       \A u \in Uids :
          /\ (/\ sessions[u].kind = "authentication"
              /\ sessions[u].account = res.account
              /\ ~sessions[u].deleted) => ~sessions[u].valid
          /\ (/\ sessions[u].kind = "authentication"
              /\ sessions[u].account = res.account)
                => \A ip \in IPs : authenticate(cookies[u], ip).err # "ok"
          /\ sessions[u].account # res.account
                => sessions[u].valid = res.before[u].valid

C22_Witness ==
    /\ Recovered
    /\ \E u \in Uids :
          /\ sessions[u].kind = "authentication"
          /\ sessions[u].account = res.account
          /\ res.before[u].valid /\ ~sessions[u].valid

C22_WitnessOtherAccount ==
    /\ Recovered
    /\ \E u \in Uids :
          /\ sessions[u].kind = "authentication"
          /\ sessions[u].account # res.account
          /\ sessions[u].valid

-----------------------------------------------------------------------------
(* C23: a session whose expiration_date has passed is treated as invalid
   even while its valid flag is True: crosscheck_code with the right code,
   on_second_factor and authenticate on it never succeed and leave its row
   as it was. *)
OnExpiredSession ==
    /\ res.op \in {"crosscheck", "on_second_factor", "authenticate"}
    /\ res.op = "crosscheck" => res.match
    /\ res.uid # 0
    /\ Before.expiration_date < now

C23_ExpiredSessionIsNeverLive ==
    OnExpiredSession => res.err # "ok" /\ After = Before

-----------------------------------------------------------------------------
(* C24: refresh_authentication creates a session exactly when the presented
   authentication session decodes and passes validation; the new session is
   another record than the presented one and belongs to the same account;
   when the presented session fails validation no session is created. *)
Refreshed == res.op = "refresh_authentication"

PresentedPasses ==
    /\ res.tokuid \in 1..Len(res.before)
    /\ res.before[res.tokuid].kind = "authentication"
    /\ SessionPasses(res.before[res.tokuid])

C24_RefreshNeedsAValidSession ==
    Refreshed =>
       IF PresentedPasses
       THEN /\ res.err = "ok"
            /\ sessions = Append(res.before, sessions[res.uid])
            /\ res.uid # res.tokuid
            /\ After.kind = "authentication"
            /\ After.account = res.before[res.tokuid].account
            /\ sessions[res.tokuid] = res.before[res.tokuid]
       ELSE res.err # "ok" /\ sessions = res.before

C24_Witness ==
    /\ Refreshed /\ PresentedPasses
    /\ res.err = "ok"
    /\ Len(sessions) = Len(res.before) + 1

C24_WitnessRefused ==
    /\ Refreshed /\ ~PresentedPasses
    /\ res.tokuid # 0
    /\ res.err \in {"InvalidError", "DeletedError", "ExpiredError"}

-----------------------------------------------------------------------------
(* C25: for every stored session, the token encode makes carries exactly the
   claims date_created, uid and ip of the session, and decode of the token
   under the secret it was signed with returns that session and no other. *)
ClaimsOf(token, u) ==
    /\ DOMAIN token.payload = {"date_created", "uid", "ip"}
    /\ token.payload.date_created = sessions[u].date_created
    /\ token.payload.uid = u
    /\ token.payload.ip = sessions[u].ip

C25_TokenRoundTrip ==
    \A u \in Uids :
       /\ ClaimsOf(cookies[u], u)
       /\ ClaimsOf(encode(u, sessions[u], secret), u)
       /\ decode(sessions[u].kind, encode(u, sessions[u], secret))
             = [err |-> "ok", found |-> u]
       /\ cookies[u].signature = Sign(cookies[u].payload, secret)
             => decode(sessions[u].kind, cookies[u]) = [err |-> "ok", found |-> u]

C25_Witness ==
    /\ Decoded
    /\ res.err = "ok" /\ res.uid # 0 /\ res.tokuid = res.uid
    /\ cookies[res.uid].signature = Sign(cookies[res.uid].payload, secret)
    /\ sessions[res.uid].account # None

-----------------------------------------------------------------------------
(* C26: decode and validate change no field of any stored session or
   account; validate on an expired session leaves its valid flag, attempts
   and expiration_date as they were. *)
C26_DecodeAndValidateAreReadOnly ==
    res.op \in {"decode", "validate"} =>
       /\ sessions = res.before
       /\ accounts = res.abefore
       /\ password = res.pbefore

C26_Witness ==
    /\ res.op = "validate"
    /\ res.err = "ExpiredError"
    /\ After.valid
    /\ After = Before

C26_WitnessDecode ==
    /\ Decoded
    /\ res.uid # 0
    /\ After.expiration_date < now
    /\ After = Before

-----------------------------------------------------------------------------
(* C27: register rejects a password whose length is not more than 8 or not
   less than 100 with CredentialsError and creates no account; with a
   password of a length strictly between 8 and 100 and a valid email,
   username and phone that no stored account has, it creates the account. *)
Collides(form, rows) ==
    \E a \in AccountIds :
       /\ rows[a].stored
       /\ \/ rows[a].email = lower(form.email)
          \/ form.phone # None /\ rows[a].phone = form.phone

C27_PasswordLengthBounds ==
    Registered =>
       /\ ~(Len(res.form.password) > 8 /\ Len(res.form.password) < 100) =>
              /\ res.err = "CredentialsError"
              /\ accounts = res.abefore /\ password = res.pbefore
       /\ WellFormed(res.form) /\ ~Collides(res.form, res.abefore) =>
              /\ res.err = "ok"
              /\ res.account # None
              /\ ~res.abefore[res.account].stored
              /\ accounts[res.account].stored

-----------------------------------------------------------------------------
(* C28: crosscheck_location accepts the address of a request only when an
   authentication session of the same account that is not deleted recorded
   it; an address that only soft-deleted authentication sessions of the
   account recorded raises UnknownLocationError. *)
KnownLiveLocation(a, ip) ==
    \E u \in Uids : /\ sessions[u].kind = "authentication"
                    /\ sessions[u].account = a
                    /\ sessions[u].ip = ip
                    /\ ~sessions[u].deleted

C28_LocationCheckSkipsDeletedSessions ==
    res.op = "crosscheck_location" =>
       (res.err = "ok" <=> KnownLiveLocation(After.account, res.ip))

-----------------------------------------------------------------------------
(* C29: logout changes only the active flag of the presented authentication
   session, and on_second_factor changes only the two_factor flag of the
   presented session; every other field of that session, every other
   session and every account are as they were. *)
C29_LogoutAndSecondFactorFrame ==
    /\ res.op = "logout" =>
          /\ sessions = [res.before EXCEPT ![res.uid].active = FALSE]
          /\ accounts = res.abefore /\ password = res.pbefore
    /\ res.op = "on_second_factor" =>
          /\ sessions = IF res.err = "ok"
                        THEN [res.before EXCEPT ![res.uid].two_factor = FALSE]
                        ELSE res.before
          /\ accounts = res.abefore /\ password = res.pbefore

C29_Witness ==
    /\ res.op = "logout"
    /\ Before.active /\ ~After.active
    /\ After.valid /\ After.two_factor

C29_WitnessSecondFactor ==
    /\ res.op = "on_second_factor" /\ res.err = "ok"
    /\ Before.two_factor /\ ~After.two_factor
    /\ After.valid /\ ~After.active

-----------------------------------------------------------------------------
(* C30: under every interleaving of fulfill_account_recovery_attempt with
   logins on the same account, once the recovery has completed no
   authentication session of the account, all obtained with the password
   before the reset, is still valid. *)
C30_NoOldPasswordSessionSurvivesRecovery ==
    Recovered =>
       \A u \in Uids :
          (/\ sessions[u].kind = "authentication"
           /\ sessions[u].account = res.account
           /\ ~sessions[u].deleted) => ~sessions[u].valid

-----------------------------------------------------------------------------
(* C31: every proxy_detection call leaves the IP2Proxy database closed when
   it finishes, with ProxyDetectedError or without: once a call has finished
   and no other request is inside proxy_detection, the handle is closed and
   it has been closed as often as it was opened. *)
NoDetectionInFlight == \A r \in RequestIds : ip2proxy.at[r] = NoDetection

C31_DatabaseIsClosedAfterEveryCall ==
    res.op = "proxy_detection" /\ NoDetectionInFlight =>
       ~ip2proxy.open /\ ip2proxy.opens = ip2proxy.closes

-----------------------------------------------------------------------------
(* C32: under every interleaving of the requests running proxy_detection, no
   request does its is_proxy lookup on a closed handle: while a request is
   between its open and its is_proxy call, the handle is open. *)
C32_NoLookupOnAClosedDatabase ==
    \A r \in RequestIds : ip2proxy.at[r].pc = "opened" => ip2proxy.open

====
